---------------------------- MODULE Spec2Model ----------------------------
(***************************************************************************)
(* A model of the Mandelbrot renderer of src/main.cpp: the palette         *)
(* constructor, the escape-time kernel ComputeMandelbrot, the slice worker *)
(* UpdateImageSlice, the fork/join frame update UpdateImage and the event  *)
(* loop of main.                                                           *)
(*                                                                         *)
(* The image, the palette and the iteration cap are scaled down            *)
(* (IMAGE_WIDTH, IMAGE_HEIGHT, kMaxIterations), and C++ double is modelled *)
(* as a binary floating-point format of the same shape as IEEE-754         *)
(* binary64 (round to nearest, ties to even, gradual underflow, overflow   *)
(* to infinity, NaN) with a short significand, so that every + and * of    *)
(* the code rounds as it does in the program.                              *)
(***************************************************************************)
EXTENDS Integers, Sequences, FiniteSets, TLC

\* ------------------------------------------------------------------ bounds
\* src/main.cpp:7, scaled down from 960
IMAGE_WIDTH == 2
\* src/main.cpp:8, scaled down from 540
IMAGE_HEIGHT == 5
\* src/main.cpp:15, scaled down from 1000
kMaxIterations == 8
\* significand bits of the floating-point format (53 in binary64)
Precision == 4
\* the smallest positive value of the format is 2^-FracBits (2^-1074 in binary64)
FracBits == 5
\* finite values have numerators below 2^MaxBits (2^1024 * 2^1074 in binary64)
MaxBits == 12
\* events the window delivers in one run of the main loop
MaxEvents == 2

\* ------------------------------------------------------- double arithmetic
\* A double is an integer n standing for n / 2^FracBits, or one of Inf, -Inf, NaN.
Pow2(k) == IF k <= 0 THEN 1 ELSE 2 ^ k

RECURSIVE BitLen(_)
BitLen(a) == IF a = 0 THEN 0 ELSE 1 + BitLen(a \div 2)

PInf == Pow2(MaxBits)
NInf == -PInf
NaN == PInf + 1

Max(a, b) == IF a >= b THEN a ELSE b
Min(a, b) == IF a <= b THEN a ELSE b
Abs(a) == IF a < 0 THEN -a ELSE a

IsNaN(a) == a = NaN
IsInf(a) == a = PInf \/ a = NInf
IsFinite(a) == NInf < a /\ a < PInf
Sign(a) == IF a < 0 THEN -1 ELSE IF a > 0 THEN 1 ELSE 0

\* Each operator below evaluates its operands once, as the program does:
\* {e(v) : v \in {x}} binds v to the value of x.

\* The double nearest to the exact value n / 2^(FracBits + s): at most Precision
\* significant bits, a multiple of 2^-FracBits, ties to even, overflow to infinity.
RndValue(n, s) ==
  LET a == Abs(n)
      drop == Max(BitLen(a) - Precision, s)
      unit == Pow2(drop)
      q == a \div unit
      r == a % unit
      up == drop > 0 /\ (2 * r > unit \/ (2 * r = unit /\ q % 2 = 1))
      m == IF up THEN q + 1 ELSE q
      mag == m * Pow2(drop - s)
  IN  IF mag >= PInf THEN (IF n < 0 THEN NInf ELSE PInf)
      ELSE IF n < 0 THEN -mag ELSE mag

Rnd(x, s) == CHOOSE v \in {RndValue(n, s) : n \in {x}} : TRUE

\* (double)k for an int k
FromInt(k) == Rnd(k * Pow2(FracBits), 0)

\* a + b
AddValue(a, b) ==
  IF IsNaN(a) \/ IsNaN(b) THEN NaN
  ELSE IF IsInf(a) /\ IsInf(b) THEN (IF a = b THEN a ELSE NaN)
  ELSE IF IsInf(a) THEN a
  ELSE IF IsInf(b) THEN b
  ELSE Rnd(a + b, 0)

FAdd(x, y) == CHOOSE v \in {AddValue(a, b) : a \in {x}, b \in {y}} : TRUE

FNeg(a) == IF IsNaN(a) THEN NaN ELSE -a

\* a - b
FSub(x, y) == CHOOSE v \in {AddValue(a, FNeg(b)) : a \in {x}, b \in {y}} : TRUE

\* a * b
MulValue(a, b) ==
  IF IsNaN(a) \/ IsNaN(b) THEN NaN
  ELSE IF IsInf(a) \/ IsInf(b)
       THEN (IF a = 0 \/ b = 0 THEN NaN
             ELSE IF Sign(a) * Sign(b) > 0 THEN PInf ELSE NInf)
  ELSE Rnd(a * b, FracBits)

FMul(x, y) == CHOOSE v \in {MulValue(a, b) : a \in {x}, b \in {y}} : TRUE

\* a / b: the quotient to one bit below 2^-FracBits, with a sticky bit under it
DivValue(a, b) ==
  IF IsNaN(a) \/ IsNaN(b) THEN NaN
  ELSE IF IsInf(a) /\ IsInf(b) THEN NaN
  ELSE IF IsInf(a) THEN (IF (a > 0) = (b >= 0) THEN PInf ELSE NInf)
  ELSE IF IsInf(b) THEN 0
  ELSE IF b = 0 THEN (IF a = 0 THEN NaN ELSE IF a > 0 THEN PInf ELSE NInf)
  ELSE LET num == Abs(a) * Pow2(FracBits + 1)
           q == num \div Abs(b)
           sticky == IF num % Abs(b) = 0 THEN 0 ELSE 1
       IN  Rnd(Sign(a) * Sign(b) * (2 * q + sticky), 2)

FDiv(x, y) == CHOOSE v \in {DivValue(a, b) : a \in {x}, b \in {y}} : TRUE

\* a / 2.0 for an int a converted to double
HalfOf(k) == Rnd(k * Pow2(FracBits), 1)

\* a > b: false when either operand is NaN
FGt(x, y) == \E a \in {x}, b \in {y} : ~IsNaN(a) /\ ~IsNaN(b) /\ a > b

\* every finite double of the format with numerator in -n..n
Doubles(n) == {v \in -n..n : Rnd(v, 0) = v}

\* --------------------------------------------------------------- the state
VARIABLES
  colors,      \* Mandelbrot::colors, the palette
  ctor_i,      \* loop index of the constructor
  pc,          \* where the caller / UpdateImage is
  hc,          \* what std::thread::hardware_concurrency() reports
  zoom, offset_X, offset_Y,   \* the viewport
  image,       \* the surface, pixel <<x, y>> -> color
  STEP, i,     \* locals of UpdateImage
  threads,     \* the vector of slice workers
  joined,      \* how many workers the join loop has joined
  calls,       \* UpdateImage calls that have returned: 0, 1, or 2 for two and more
  first,       \* the surface as the first call returned it
  writes,      \* setPixel calls of the current UpdateImage call
  c_real, c_imag, z_real, z_imag, counter, k_pc, k_ret,  \* one ComputeMandelbrot call
  stateChanged,  \* main's flag: the image has to be recreated
  isOpen,        \* window.isOpen()
  m_pc,          \* where the main loop is: polling events, at the frame, or left
  handled,       \* events polled so far
  shown,         \* the viewport of the last UpdateImage call of the main loop, <<>> before it
  batchChanged,  \* an event of the current polling batch changed the viewport
  stale,         \* the last frame displayed a surface of another viewport than the current one
  redundant,     \* an UpdateImage call got the viewport of the call before it
  wheelRanFor    \* the types of the events whose handling ran the code of lines 141-149

mainVars == <<colors, ctor_i, pc, hc, zoom, offset_X, offset_Y, image, STEP, i,
              threads, joined, calls, first, writes>>
kernelVars == <<c_real, c_imag, z_real, z_imag, counter, k_pc, k_ret>>
loopVars == <<stateChanged, isOpen, m_pc, handled, shown, batchChanged, stale, redundant,
              wheelRanFor>>
vars == <<mainVars, kernelVars, loopVars>>

\* ------------------------------------------------------ ComputeMandelbrot
\* the literals 2.0 and 4.0
Two == FromInt(2)
Four == FromInt(4)

\* a kernel that starts the orbit at 0 instead of c
KernelStartAtZero(cr, ci) == [z_real |-> 0, z_imag |-> 0]

\* lines 29-30: z starts at c
KernelStart(cr, ci) == [z_real |-> cr, z_imag |-> ci]

\* a loop that runs one iteration too many
LoopCondInclusive(n) == n <= kMaxIterations

\* line 31: the loop condition
LoopCond(n) == n < kMaxIterations

\* lines 32-33: <<r2, i2>>
Squares(zr, zi) == <<FMul(zr, zr), FMul(zi, zi)>>

\* an escape test that is not strict: r2 + i2 >= 4.0
EscapedInclusive(r2, i2) == \E a \in {FAdd(r2, i2)} : ~IsNaN(a) /\ a >= Four

\* line 34: r2 + i2 > 4.0
Escaped(r2, i2) == FGt(FAdd(r2, i2), Four)

\* line 37: 2.0 * z_real * z_imag + c_imag
NextZImag(zr, zi, ci) == FAdd(FMul(FMul(Two, zr), zi), ci)

\* line 38: r2 - i2 + c_real
NextZReal(r2, i2, cr) == FAdd(FSub(r2, i2), cr)

\* lines 31-40 from iteration n on, at z = <<z_real, z_imag>>
RECURSIVE KernelLoop(_, _, _, _)
KernelLoop(cr, ci, z, n) ==
  IF ~LoopCond(n) THEN kMaxIterations
  ELSE CHOOSE v \in
         { IF Escaped(sq[1], sq[2]) THEN n
           ELSE CHOOSE u \in
                  { KernelLoop(cr, ci, zn, n + 1) :
                      zn \in {<<NextZReal(sq[1], sq[2], cr), NextZImag(z[1], z[2], ci)>>} } : TRUE
           : sq \in {Squares(z[1], z[2])} } : TRUE

\* lines 28-41
ComputeMandelbrot(x, y) ==
  CHOOSE v \in
    { KernelLoop(cr, ci, z, 0) :
        cr \in {x}, ci \in {y},
        z \in {<<KernelStart(x, y).z_real, KernelStart(x, y).z_imag>>} } : TRUE

\* The same function, one loop iteration per step.
\* its inputs: the quarters from -2.5 to 2.5, the smallest and the largest finite
\* magnitudes, the infinities and NaN
MaxFinite == PInf - Pow2(MaxBits - Precision)
KernelInputs ==
  {k * Pow2(FracBits - 2) : k \in -10..10}
    \cup {1, -1, MaxFinite, -MaxFinite, PInf, NInf, NaN}

KernelEscape ==
  /\ k_pc = "loop" /\ LoopCond(counter)
  /\ Escaped(Squares(z_real, z_imag)[1], Squares(z_real, z_imag)[2])
  /\ k_ret' = counter /\ k_pc' = "ret"
  /\ UNCHANGED <<c_real, c_imag, z_real, z_imag, counter, mainVars, loopVars>>

KernelIterate ==
  /\ k_pc = "loop" /\ LoopCond(counter)
  /\ ~Escaped(Squares(z_real, z_imag)[1], Squares(z_real, z_imag)[2])
  /\ z_imag' = NextZImag(z_real, z_imag, c_imag)
  /\ z_real' = NextZReal(Squares(z_real, z_imag)[1], Squares(z_real, z_imag)[2], c_real)
  /\ counter' = counter + 1
  /\ UNCHANGED <<c_real, c_imag, k_pc, k_ret, mainVars, loopVars>>

KernelExhaust ==
  /\ k_pc = "loop" /\ ~LoopCond(counter)
  /\ k_ret' = kMaxIterations /\ k_pc' = "ret"
  /\ UNCHANGED <<c_real, c_imag, z_real, z_imag, counter, mainVars, loopVars>>

KernelNext == KernelEscape \/ KernelIterate \/ KernelExhaust

KernelInit ==
  /\ c_real \in KernelInputs /\ c_imag \in KernelInputs
  /\ z_real = KernelStart(c_real, c_imag).z_real
  /\ z_imag = KernelStart(c_real, c_imag).z_imag
  /\ counter = 0 /\ k_pc = "loop" /\ k_ret = 0

\* ------------------------------------------------------------ the palette
Black == <<0, 0, 0>>
\* a color no palette entry has: stands for whatever the surface held before
Stale == <<255, 255, 255>>

\* a red channel with the coefficient 10 in place of 9
GetColorRawTen(n) ==
  LET M == kMaxIterations
      M4 == M * M * M * M
  IN  << (10 * (M - n) * n * n * n * 255) \div M4,
         (15 * (M - n) * (M - n) * n * n * 255) \div M4,
         (17 * (M - n) * (M - n) * (M - n) * n * 255) \div (2 * M4) >>

\* lines 52-56: the three ints before they are narrowed, with t = n / kMaxIterations.
\* The products are evaluated exactly: for kMaxIterations = 1000 the program's
\* double evaluation truncates to the same int for every n in 0..1000.
GetColorRaw(n) ==
  LET M == kMaxIterations
      M4 == M * M * M * M
  IN  << (9 * (M - n) * n * n * n * 255) \div M4,
         (15 * (M - n) * (M - n) * n * n * 255) \div M4,
         (17 * (M - n) * (M - n) * (M - n) * n * 255) \div (2 * M4) >>

\* sf::Color(Uint8, Uint8, Uint8): an int argument is narrowed to 8 bits
Uint8(v) == v % 256

\* line 57
GetColor(n) == [ch \in 1..3 |-> Uint8(GetColorRaw(n)[ch])]

\* lines 23-25, one iteration
CtorStep ==
  /\ pc = "ctor" /\ ctor_i <= kMaxIterations
  /\ colors' = [colors EXCEPT ![ctor_i] = GetColor(ctor_i)]
  /\ ctor_i' = ctor_i + 1
  /\ UNCHANGED <<pc, hc, zoom, offset_X, offset_Y, image, STEP, i, threads, joined,
                 calls, first, writes, kernelVars, loopVars>>

CtorDone ==
  /\ pc = "ctor" /\ ctor_i > kMaxIterations
  /\ pc' = "idle"
  /\ UNCHANGED <<colors, ctor_i, hc, zoom, offset_X, offset_Y, image, STEP, i, threads,
                 joined, calls, first, writes, kernelVars, loopVars>>

\* -------------------------------------------------------- UpdateImageSlice
Pixels == (0..(IMAGE_WIDTH - 1)) \X (0..(IMAGE_HEIGHT - 1))
Blank(c) == [p \in Pixels |-> c]

\* line 62: 0 * zoom - IMAGE_WIDTH / 2.0 * zoom + offset_X
CRealStart(zm, ox) ==
  FAdd(FSub(FMul(FromInt(0), zm), FMul(HalfOf(IMAGE_WIDTH), zm)), ox)

\* line 63: minY * zoom - IMAGE_HEIGHT / 2.0 * zoom + offset_Y
CImagStart(zm, oy, minY) ==
  FAdd(FSub(FMul(FromInt(minY), zm), FMul(HalfOf(IMAGE_HEIGHT), zm)), oy)

\* c_real of column x: line 62, then x times the c_real += zoom of line 64
RECURSIVE CRealAt(_, _, _)
CRealAt(zm, ox, x) ==
  IF x <= 0 THEN CRealStart(zm, ox) ELSE FAdd(CRealAt(zm, ox, x - 1), zm)

\* c_imag of row y in a slice starting at minY: line 63, then y - minY times the
\* c_imag += zoom of line 66
RECURSIVE CImagAt(_, _, _, _)
CImagAt(zm, oy, minY, y) ==
  IF y <= minY THEN CImagStart(zm, oy, minY) ELSE FAdd(CImagAt(zm, oy, minY, y - 1), zm)

\* viewports: zoom and the offsets, doubles given as numerators over 2^FracBits
Zooms == {13, 18}
OffsetsX == {-16}
OffsetsY == {2}

\* ComputeMandelbrot tabulated once over the points the slices of these viewports
\* visit; the value at any other point is computed when it is asked for.
SlicePoints ==
  UNION { { <<CRealAt(zm, ox, x), CImagAt(zm, oy, lo, y)>> :
              x \in 0..(IMAGE_WIDTH - 1), y \in lo..(IMAGE_HEIGHT - 1) } :
          zm \in Zooms, ox \in OffsetsX, oy \in OffsetsY, lo \in 0..(IMAGE_HEIGHT - 1) }

KernelTable ==
  [c \in SlicePoints |-> ComputeMandelbrot(c[1], c[2])] @@ [c \in {} |-> 0]

KernelValue(cr, ci) ==
  IF <<cr, ci>> \in DOMAIN KernelTable THEN KernelTable[<<cr, ci>>]
  ELSE ComputeMandelbrot(cr, ci)

\* the iteration count a slice starting at minY computes for pixel <<x, y>>
SliceValue(zm, ox, oy, minY, x, y) ==
  KernelValue(CRealAt(zm, ox, x), CImagAt(zm, oy, minY, y))

\* the surface a single slice [0, IMAGE_HEIGHT) produces
SerialImage(zm, ox, oy) ==
  [p \in Pixels |-> GetColor(SliceValue(zm, ox, oy, 0, p[1], p[2]))]

\* an inner loop that stops one row short
InSliceShort(w) == w.x < IMAGE_WIDTH /\ w.y < w.maxY - 1

\* lines 64 and 66: the loop conditions
InSlice(w) == w.x < IMAGE_WIDTH /\ w.y < w.maxY

\* A worker as the thread constructor starts it (lines 62-66): at the first pixel
\* it will write, or finished when its slice holds no pixel.
NewWorker(minY, maxY) ==
  LET w == [minY |-> minY, maxY |-> maxY, x |-> 0, y |-> minY,
            c_real |-> CRealStart(zoom, offset_X),
            c_imag_start |-> CImagStart(zoom, offset_Y, minY),
            c_imag |-> CImagStart(zoom, offset_Y, minY),
            done |-> FALSE]
  IN  [w EXCEPT !.done = ~InSlice(w)]

\* lines 64-66: the loop increments after a pixel, up to the next pixel to write
Advance(w) ==
  LET down == [w EXCEPT !.y = w.y + 1, !.c_imag = FAdd(w.c_imag, zoom)]
      right == [w EXCEPT !.x = w.x + 1, !.c_real = FAdd(w.c_real, zoom),
                         !.y = w.minY, !.c_imag = w.c_imag_start]
  IN  IF down.y < down.maxY THEN down
      ELSE [right EXCEPT !.done = ~InSlice(right)]

\* line 68: colors[value]; outside the array the read yields garbage
Lookup(value) == IF value \in DOMAIN colors THEN colors[value] ELSE Stale

\* line 68: image.setPixel(x, y, c); outside the surface the write lands elsewhere
SetPixel(img, x, y, c) ==
  IF <<x, y>> \in Pixels THEN [img EXCEPT ![<<x, y>>] = c] ELSE img

\* lines 67-68 for one pixel, then the loop increments
WorkerStep(t) ==
  /\ pc # "crashed" /\ ~threads[t].done
  /\ \E w \in {threads[t]} : \E value \in {KernelValue(w.c_real, w.c_imag)} :
      /\ image' = SetPixel(image, w.x, w.y, Lookup(value))
      /\ writes' = writes \cup {[t |-> t, x |-> w.x, y |-> w.y, value |-> value,
                                  c_real |-> w.c_real, c_imag |-> w.c_imag]}
      /\ threads' = [threads EXCEPT ![t] = Advance(w)]
      /\ UNCHANGED <<colors, ctor_i, pc, hc, zoom, offset_X, offset_Y, STEP, i, joined,
                     calls, first, kernelVars, loopVars>>

\* ------------------------------------------------------------- UpdateImage
\* threads the platform lets the process start before std::thread's constructor throws
MaxThreads == 7

\* slice bounds without the clamp to the image height
SliceMaxYUnclamped(lo, step) == lo + step

\* slice bounds that take maxY as the last row of the slice, not the row after it
SliceMaxYInclusive(lo, step) == Min(lo + step + 1, IMAGE_HEIGHT)

\* line 78: std::min(i + STEP, IMAGE_HEIGHT)
SliceMaxY(lo, step) == Min(lo + step, IMAGE_HEIGHT)

\* line 77: i += STEP
NextSlice(lo, step) == lo + step

\* a step that rounds up, to get no more slices than execution units
SliceStepCeil(n) == (IMAGE_HEIGHT + n - 1) \div n

\* line 76: IMAGE_HEIGHT / std::thread::hardware_concurrency()
SliceStep(n) == IMAGE_HEIGHT \div n

\* a join that does not wait
JoinReturnsAtOnce(t) == TRUE

\* line 81: t.join() returns once the thread has finished
JoinReturns(t) == threads[t].done

\* the caller calls UpdateImage any number of times, each time with the same viewport
CanCall == pc = "idle" \/ pc = "returned"

\* lines 75-77 with a nonzero divisor: STEP = IMAGE_HEIGHT / hardware_concurrency()
CallDivide ==
  /\ CanCall /\ hc > 0
  /\ STEP' = SliceStep(hc)
  /\ pc' = "spawn" /\ i' = 0 /\ threads' = <<>> /\ joined' = 0 /\ writes' = {}
  /\ UNCHANGED <<colors, ctor_i, hc, zoom, offset_X, offset_Y, image, calls, first,
                 kernelVars, loopVars>>

\* lines 75-77 with hardware_concurrency() == 0: the unsigned division by zero is
\* undefined; the divide instruction traps (x86: SIGFPE) or yields 0 (ARM: udiv).
CallDivideByZero ==
  /\ CanCall /\ hc = 0
  /\ \/ /\ pc' = "crashed"
        /\ UNCHANGED <<STEP, i, threads, joined, writes>>
     \/ /\ STEP' = 0
        /\ pc' = "spawn" /\ i' = 0 /\ threads' = <<>> /\ joined' = 0 /\ writes' = {}
  /\ UNCHANGED <<colors, ctor_i, hc, zoom, offset_X, offset_Y, image, calls, first,
                 kernelVars, loopVars>>

\* lines 77-78, one iteration: the thread starts running as it is constructed
Spawn ==
  /\ pc = "spawn" /\ i < IMAGE_HEIGHT /\ Len(threads) < MaxThreads
  /\ threads' = Append(threads, NewWorker(i, SliceMaxY(i, STEP)))
  /\ i' = NextSlice(i, STEP)
  /\ UNCHANGED <<colors, ctor_i, pc, hc, zoom, offset_X, offset_Y, image, STEP, joined,
                 calls, first, writes, kernelVars, loopVars>>

\* line 78 when no more threads can be started: std::thread's constructor throws
\* std::system_error, nothing catches it, the process terminates
SpawnFail ==
  /\ pc = "spawn" /\ i < IMAGE_HEIGHT /\ Len(threads) >= MaxThreads
  /\ pc' = "crashed"
  /\ UNCHANGED <<colors, ctor_i, hc, zoom, offset_X, offset_Y, image, STEP, i, threads,
                 joined, calls, first, writes, kernelVars, loopVars>>

\* line 77: the loop ends
SpawnDone ==
  /\ pc = "spawn" /\ i >= IMAGE_HEIGHT
  /\ pc' = "join"
  /\ UNCHANGED <<colors, ctor_i, hc, zoom, offset_X, offset_Y, image, STEP, i, threads,
                 joined, calls, first, writes, kernelVars, loopVars>>

\* lines 80-82, one iteration
Join ==
  /\ pc = "join" /\ joined < Len(threads) /\ JoinReturns(joined + 1)
  /\ joined' = joined + 1
  /\ UNCHANGED <<colors, ctor_i, pc, hc, zoom, offset_X, offset_Y, image, STEP, i,
                 threads, calls, first, writes, kernelVars, loopVars>>

\* line 83
Return ==
  /\ pc = "join" /\ joined = Len(threads)
  /\ pc' = "returned" /\ calls' = Min(calls + 1, 2)
  /\ first' = IF calls = 0 THEN image ELSE first
  /\ UNCHANGED <<colors, ctor_i, hc, zoom, offset_X, offset_Y, image, STEP, i, threads,
                 joined, writes, kernelVars, loopVars>>

\* ----------------------------------------------------------- the main loop
\* line 89: the double nearest to 0.9
zoom_factor == FDiv(FromInt(9), FromInt(10))

\* the literals an event's wheel delta is compared with (lines 141, 145)
One == FromInt(1)
MinusOne == FromInt(-1)

\* a zoom step that subtracts the factor instead of scaling by it
ZoomInBySubtract(z) == FSub(z, zoom_factor)

\* lines 119 and 143: zoom *= zoom_factor
ZoomIn(z) == FMul(z, zoom_factor)

\* lines 122 and 147: zoom /= zoom_factor
ZoomOut(z) == FDiv(z, zoom_factor)

\* lines 125-134: 40 * zoom
PanStep(z) == FMul(FromInt(40), z)

\* the keys: the seven of lines 115-135 and one that has no case
Keys == {"Escape", "Equal", "Dash", "W", "S", "A", "D", "F1"}

\* The events pollEvent delivers: key presses, wheel movements by 1, -1 or another
\* amount, the close request, and an event type the switch has no case for.
Events ==
  [type : {"KeyPressed"}, code : Keys]
    \cup [type : {"MouseWheelScrolled"}, delta : {One, MinusOne, FromInt(2)}]
    \cup {[type |-> "Closed"], [type |-> "Resized"]}

\* What event.mouseWheelScroll.delta yields for an event (lines 141, 145). For a
\* KeyPressed event the union holds a KeyEvent, and the read takes the bytes of its
\* modifier flags (SFML 2.5) or of its scancode (SFML 2.6) as a float: a subnormal,
\* 0 or NaN, in no build 1 or -1. 0 stands for these values.
DeltaRead(e) == IF e.type = "MouseWheelScrolled" THEN e.delta ELSE 0

\* the state main's event handling reads and writes
LoopState == [zoom |-> zoom, offset_X |-> offset_X, offset_Y |-> offset_Y,
              stateChanged |-> stateChanged, isOpen |-> isOpen]
Viewport(s) == <<s.zoom, s.offset_X, s.offset_Y>>

\* lines 113-138: case KeyPressed up to the end of the inner switch
KeyCase(code, s) ==
  LET t == [s EXCEPT !.stateChanged = TRUE]
  IN  CASE code = "Escape" -> [t EXCEPT !.isOpen = FALSE]
        [] code = "Equal" -> [t EXCEPT !.zoom = ZoomIn(t.zoom)]
        [] code = "Dash" -> [t EXCEPT !.zoom = ZoomOut(t.zoom)]
        [] code = "W" -> [t EXCEPT !.offset_Y = FSub(t.offset_Y, PanStep(t.zoom))]
        [] code = "S" -> [t EXCEPT !.offset_Y = FAdd(t.offset_Y, PanStep(t.zoom))]
        [] code = "A" -> [t EXCEPT !.offset_X = FSub(t.offset_X, PanStep(t.zoom))]
        [] code = "D" -> [t EXCEPT !.offset_X = FAdd(t.offset_X, PanStep(t.zoom))]
        [] OTHER -> [t EXCEPT !.stateChanged = FALSE]

\* lines 141-149: the code under case MouseWheelScrolled
WheelCase(delta, s) ==
  LET t == IF delta = One
             THEN [s EXCEPT !.stateChanged = TRUE, !.zoom = ZoomIn(s.zoom)] ELSE s
  IN  IF delta = MinusOne
        THEN [t EXCEPT !.stateChanged = TRUE, !.zoom = ZoomOut(t.zoom)] ELSE t

\* line 112: the switch enters case KeyPressed
RunsKeyCase(e) == e.type = "KeyPressed"

\* line 140: the switch enters case MouseWheelScrolled, or control arrives from
\* the case above it, which ends at line 139 without a break
RunsWheelCase(e) == e.type = "MouseWheelScrolled" \/ RunsKeyCase(e)

\* lines 108-153: the switch on event.type
HandleEvent(e, s) ==
  LET closed == IF e.type = "Closed" THEN [s EXCEPT !.isOpen = FALSE] ELSE s
      keyed == IF RunsKeyCase(e) THEN KeyCase(e.code, closed) ELSE closed
  IN  IF RunsWheelCase(e) THEN WheelCase(DeltaRead(e), keyed) ELSE keyed

renderVars == <<colors, ctor_i, pc, hc, image, STEP, i, threads, joined, calls, first,
                writes>>

\* lines 107-154, one iteration: pollEvent delivers e and the switch handles it;
\* a closed window delivers no event
PollEvent(e) ==
  /\ m_pc = "poll" /\ isOpen /\ handled < MaxEvents
  /\ \E s \in {LoopState} : \E t \in {HandleEvent(e, s)} :
       /\ zoom' = t.zoom /\ offset_X' = t.offset_X /\ offset_Y' = t.offset_Y
       /\ stateChanged' = t.stateChanged /\ isOpen' = t.isOpen
       /\ batchChanged' = (batchChanged \/ Viewport(t) # Viewport(s))
  /\ handled' = handled + 1
  /\ wheelRanFor' = IF RunsWheelCase(e) THEN wheelRanFor \cup {e.type} ELSE wheelRanFor
  /\ UNCHANGED <<m_pc, shown, stale, redundant, renderVars, kernelVars>>

\* line 107: pollEvent finds no event, the batch ends
PollEmpty ==
  /\ m_pc = "poll"
  /\ m_pc' = "frame"
  /\ UNCHANGED <<zoom, offset_X, offset_Y, stateChanged, isOpen, handled, shown,
                 batchChanged, stale, redundant, wheelRanFor, renderVars, kernelVars>>

\* line 105: the loop condition, evaluated after a frame
LoopAgain == IF isOpen THEN "poll" ELSE "exit"

\* lines 156-163 with stateChanged set: UpdateImage for the current viewport (the
\* surface is the one of that viewport from here on), then draw and display
FrameUpdate ==
  /\ m_pc = "frame" /\ stateChanged
  /\ shown' = <<zoom, offset_X, offset_Y>>
  /\ redundant' = (redundant \/ shown = <<zoom, offset_X, offset_Y>>)
  /\ stateChanged' = FALSE
  /\ stale' = FALSE
  /\ batchChanged' = FALSE
  /\ m_pc' = LoopAgain
  /\ UNCHANGED <<zoom, offset_X, offset_Y, isOpen, handled, wheelRanFor, renderVars,
                 kernelVars>>

\* lines 156-163 with stateChanged clear: draw and display the surface as it is
FrameSkip ==
  /\ m_pc = "frame" /\ ~stateChanged
  /\ stale' = (shown # <<zoom, offset_X, offset_Y>>)
  /\ batchChanged' = FALSE
  /\ m_pc' = LoopAgain
  /\ UNCHANGED <<zoom, offset_X, offset_Y, stateChanged, isOpen, handled, shown,
                 redundant, wheelRanFor, renderVars, kernelVars>>

\* every zoom the loop can hold: the closure of the initial zooms under
\* zoom *= zoom_factor and zoom /= zoom_factor
RECURSIVE ZoomClosure(_)
ZoomClosure(S) ==
  LET T == S \cup {ZoomIn(z) : z \in S} \cup {ZoomOut(z) : z \in S}
  IN  IF T = S THEN S ELSE ZoomClosure(T)

ZoomLevels == ZoomClosure(Zooms)

\* ------------------------------------------------------- the specifications
\* the main loop is not running
LoopIdle ==
  /\ stateChanged = TRUE /\ isOpen = TRUE /\ m_pc = "idle" /\ handled = 0 /\ shown = <<>>
  /\ batchChanged = FALSE /\ stale = FALSE /\ redundant = FALSE /\ wheelRanFor = {}

Init ==
  /\ colors = [n \in 0..kMaxIterations |-> Black]
  /\ ctor_i = 0 /\ pc = "ctor"
  /\ hc \in 0..(IMAGE_HEIGHT + 1)
  /\ zoom \in Zooms /\ offset_X \in OffsetsX /\ offset_Y \in OffsetsY
  /\ image \in {Blank(Black), Blank(Stale)}
  /\ first = image
  /\ STEP = 0 /\ i = 0 /\ threads = <<>> /\ joined = 0 /\ calls = 0 /\ writes = {}
  /\ c_real = 0 /\ c_imag = 0 /\ z_real = 0 /\ z_imag = 0
  /\ counter = 0 /\ k_pc = "idle" /\ k_ret = 0
  /\ LoopIdle

Next ==
  \/ CtorStep \/ CtorDone
  \/ CallDivide \/ CallDivideByZero
  \/ Spawn \/ SpawnFail \/ SpawnDone
  \/ \E t \in 1..Len(threads) : WorkerStep(t)
  \/ Join \/ Return

Spec == Init /\ [][Next]_vars

\* ComputeMandelbrot alone, on every input of KernelInputs
InitKernel ==
  /\ colors = [n \in 0..kMaxIterations |-> GetColor(n)]
  /\ ctor_i = kMaxIterations + 1 /\ pc = "idle" /\ hc = 1
  /\ zoom = 16 /\ offset_X = 0 /\ offset_Y = 0
  /\ image = Blank(Black) /\ first = image
  /\ STEP = 0 /\ i = 0 /\ threads = <<>> /\ joined = 0 /\ calls = 0 /\ writes = {}
  /\ KernelInit
  /\ LoopIdle

SpecKernel == InitKernel /\ [][KernelNext]_vars

\* The main loop of lines 105-164, with UpdateImage as one step. It starts at the
\* top of the loop: in the first iteration (lines 86-103), or in a later one with
\* any zoom the keys can have brought about and the surface of that viewport.
InitMain ==
  /\ colors = [n \in 0..kMaxIterations |-> GetColor(n)]
  /\ ctor_i = kMaxIterations + 1 /\ pc = "idle" /\ hc = 1
  /\ offset_X \in OffsetsX /\ offset_Y \in OffsetsY
  /\ \/ zoom \in Zooms /\ stateChanged = TRUE /\ shown = <<>>
     \/ zoom \in ZoomLevels /\ stateChanged = FALSE /\ shown = <<zoom, offset_X, offset_Y>>
  /\ image = Blank(Black) /\ first = image
  /\ STEP = 0 /\ i = 0 /\ threads = <<>> /\ joined = 0 /\ calls = 0 /\ writes = {}
  /\ c_real = 0 /\ c_imag = 0 /\ z_real = 0 /\ z_imag = 0
  /\ counter = 0 /\ k_pc = "idle" /\ k_ret = 0
  /\ isOpen = TRUE /\ m_pc = "poll" /\ handled = 0
  /\ batchChanged = FALSE /\ stale = FALSE /\ redundant = FALSE /\ wheelRanFor = {}

MainNext ==
  \/ \E e \in Events : PollEvent(e)
  \/ PollEmpty
  \/ FrameUpdate
  \/ FrameSkip

SpecMain == InitMain /\ [][MainNext]_vars
\* ------------------------------------------------------------- the claims
WorkerCounts == 1..IMAGE_HEIGHT
InUpdate == pc \in {"spawn", "join", "returned"}
Rows(t) == threads[t].minY..(threads[t].maxY - 1)
WrittenPixels == {<<w.x, w.y>> : w \in writes}

\* C1: when UpdateImage returns, every worker it started has finished and every
\* pixel of the surface was written in this call and holds the palette color of
\* the value its slice computes for the call's viewport, for every worker count
\* W in 1..IMAGE_HEIGHT.
C1_FullBarrier ==
  (pc = "returned" /\ hc \in WorkerCounts) =>
    /\ \A t \in 1..Len(threads) : threads[t].done
    /\ WrittenPixels = Pixels
    /\ \A p \in Pixels : \E t \in 1..Len(threads) :
         /\ p[2] \in Rows(t)
         /\ image[p] = colors[SliceValue(zoom, offset_X, offset_Y, threads[t].minY, p[1], p[2])]

C1_Witness ==
  /\ pc = "returned" /\ hc = 2 /\ calls = 1 /\ Len(threads) > 2
  /\ \E p \in Pixels : image[p] # Black

\* C2: for every worker count W in 1..IMAGE_HEIGHT the row ranges handed to the
\* workers partition the rows: each row started so far is in exactly one range, no
\* range is empty or reaches past IMAGE_HEIGHT, and once the spawn loop has ended
\* the ranges cover every row.
C2_Partition ==
  (InUpdate /\ hc \in WorkerCounts) =>
    /\ \A t \in 1..Len(threads) :
         0 <= threads[t].minY /\ threads[t].minY < threads[t].maxY
         /\ threads[t].maxY <= IMAGE_HEIGHT
    /\ \A y \in 0..(IMAGE_HEIGHT - 1) :
         Cardinality({t \in 1..Len(threads) : y \in Rows(t)}) = IF y < i THEN 1 ELSE 0
    /\ (pc # "spawn" => i >= IMAGE_HEIGHT)

C2_Witness ==
  /\ pc = "join" /\ hc \in WorkerCounts /\ IMAGE_HEIGHT % STEP # 0
  /\ threads[Len(threads)].maxY = IMAGE_HEIGHT

\* C3 as stated: UpdateImage starts exactly W slices and the last of them absorbs
\* the remainder rows.
C3_ExactlyWSlices ==
  (pc \in {"join", "returned"} /\ hc \in WorkerCounts) =>
    /\ Len(threads) = hc
    /\ threads[hc].maxY - threads[hc].minY = STEP + (IMAGE_HEIGHT % hc)

\* C3 amended: UpdateImage starts ceil(IMAGE_HEIGHT / STEP) slices with
\* STEP = floor(IMAGE_HEIGHT / W): W slices exactly when W divides IMAGE_HEIGHT and
\* more than W otherwise; every slice but the last has STEP rows and the last one
\* has the rows that are left, at most STEP.
C3_SliceCount ==
  (pc \in {"join", "returned"} /\ hc \in WorkerCounts) =>
    LET n == Len(threads)
        step == IMAGE_HEIGHT \div hc
    IN  /\ n = (IMAGE_HEIGHT + step - 1) \div step
        /\ n >= hc
        /\ (n = hc <=> IMAGE_HEIGHT % hc = 0)
        /\ \A t \in 1..(n - 1) : threads[t].maxY - threads[t].minY = step
        /\ threads[n].maxY - threads[n].minY = IMAGE_HEIGHT - (n - 1) * step
        /\ threads[n].maxY - threads[n].minY <= step

C3_Witness ==
  /\ pc = "join" /\ hc \in WorkerCounts /\ Len(threads) > hc
  /\ threads[Len(threads)].maxY - threads[Len(threads)].minY < STEP

\* C4: when hardware_concurrency() reports 0, UpdateImage does not fail: it runs
\* with a step of at least one row (at least one slice), and when it returns the
\* whole surface has been written.
C4_ZeroFallsBackToOneSlice ==
  hc = 0 =>
    /\ pc # "crashed"
    /\ (InUpdate => STEP >= 1)
    /\ (pc = "returned" => WrittenPixels = Pixels)

\* C5: every setPixel of a worker is inside the surface and inside the rows of
\* that worker's own slice, and no pixel is written by two different workers.
C5_DisjointWrites ==
  \A w \in writes :
    /\ w.t \in 1..Len(threads)
    /\ <<w.x, w.y>> \in Pixels
    /\ w.y \in Rows(w.t)
    /\ \A v \in writes : (v.x = w.x /\ v.y = w.y) => v.t = w.t

C5_Witness ==
  /\ pc = "join" /\ WrittenPixels = Pixels
  /\ Cardinality({w.t : w \in writes}) = IMAGE_HEIGHT

\* C6: for every worker count N in 1..IMAGE_HEIGHT the surface UpdateImage
\* returns is pixel-identical to the surface a single slice produces.
C6_ParallelEqualsSerial ==
  (pc = "returned" /\ hc \in WorkerCounts) =>
    image = SerialImage(zoom, offset_X, offset_Y)

\* C7: a second (and any later) UpdateImage call with the same viewport on the same
\* surface returns the surface the first call returned.
C7_Idempotent ==
  (pc = "returned" /\ calls >= 2) => image = first

C7_Witness ==
  /\ pc = "returned" /\ calls = 2 /\ Len(threads) >= 2
  /\ image = first /\ image # Blank(Stale) /\ image # Blank(Black)

\* C8: ComputeMandelbrot runs at most kMaxIterations iterations, always has a next
\* step until it returns, and returns a value in 0..kMaxIterations, an index of
\* the palette; the value is the one the slice workers look up.
C8_KernelBounded ==
  /\ counter \in 0..kMaxIterations
  /\ (k_pc = "loop" => ENABLED KernelNext)
  /\ (k_pc = "ret" =>
        /\ k_ret \in 0..kMaxIterations
        /\ k_ret \in DOMAIN colors
        /\ k_ret = ComputeMandelbrot(c_real, c_imag))

C8_Witness ==
  /\ k_pc = "ret" /\ IsNaN(c_real) /\ k_ret = kMaxIterations
  /\ counter = kMaxIterations

\* C9: ComputeMandelbrot(0, 0) returns kMaxIterations and ComputeMandelbrot(2, 0)
\* returns 0 or 1.
C9_KnownPoints ==
  k_pc = "ret" =>
    /\ (c_real = 0 /\ c_imag = 0 => k_ret = kMaxIterations)
    /\ (c_real = Two /\ c_imag = 0 => k_ret \in {0, 1})

C9_Witness ==
  k_pc = "ret" /\ c_real = Two /\ c_imag = 0 /\ k_ret = 1

\* C10: every channel the constructor computes for entry n lies in 0..255, so the
\* stored 8-bit channel is the computed value, and the entries for 0 and
\* kMaxIterations are (0, 0, 0).
C10_PaletteChannels ==
  \A n \in 0..kMaxIterations :
    n < ctor_i =>
      /\ \A ch \in 1..3 :
           GetColorRaw(n)[ch] \in 0..255 /\ colors[n][ch] = GetColorRaw(n)[ch]
      /\ (n \in {0, kMaxIterations} => colors[n] = Black)

C10_Witness ==
  /\ pc = "idle" /\ ctor_i = kMaxIterations + 1
  /\ \E n \in 0..kMaxIterations : colors[n] # Black

\* C11: the point a worker hands to ComputeMandelbrot for pixel <<x, y>> is exactly
\* the point of the direct formula, (x - IMAGE_WIDTH / 2.0) * zoom + offset_X and
\* (y - IMAGE_HEIGHT / 2.0) * zoom + offset_Y; the pixel (IMAGE_WIDTH / 2,
\* IMAGE_HEIGHT / 2), where the image has such a pixel, gets exactly
\* (offset_X, offset_Y); and from one column to the next c_real grows by exactly zoom.
C11_AccumulatedEqualsDirect ==
  LET DirectReal(x) == FAdd(FMul(FSub(FromInt(x), HalfOf(IMAGE_WIDTH)), zoom), offset_X)
      DirectImag(y) == FAdd(FMul(FSub(FromInt(y), HalfOf(IMAGE_HEIGHT)), zoom), offset_Y)
  IN  \A w \in writes :
        /\ w.c_real = DirectReal(w.x)
        /\ w.c_imag = DirectImag(w.y)
        /\ (2 * w.x = IMAGE_WIDTH => w.c_real = offset_X)
        /\ (2 * w.y = IMAGE_HEIGHT => w.c_imag = offset_Y)
        /\ \A v \in writes : v.x = w.x + 1 => FSub(v.c_real, w.c_real) = zoom

\* C12: the value ComputeMandelbrot returns is the index of the first element of
\* the orbit z_0 = c, z_{k+1} = z_k^2 + c (in the arithmetic of lines 32-38) whose
\* squared norm is greater than 4: a value n < kMaxIterations means z_n passes the
\* test and no z_k with k < n does; the value kMaxIterations means no z_k with
\* k < kMaxIterations does. The test is strict: a squared norm of exactly 4 has
\* not escaped. When no coordinate of c is NaN, every element that does not pass
\* the test has a squared norm <= 4.
C12_FirstEscapeIndex ==
  k_pc = "ret" =>
    LET Step(z) == <<NextZReal(FMul(z[1], z[1]), FMul(z[2], z[2]), c_real),
                     NextZImag(z[1], z[2], c_imag)>>
        orbit[k \in 0..kMaxIterations] ==
          IF k = 0 THEN <<c_real, c_imag>> ELSE Step(orbit[k - 1])
        NormSq(z) == FAdd(FMul(z[1], z[1]), FMul(z[2], z[2]))
        Gt4(z) == \E a \in {NormSq(z)} : ~IsNaN(a) /\ a > Four
        Le4(z) == \E a \in {NormSq(z)} : ~IsNaN(a) /\ a <= Four
    IN  /\ k_ret \in 0..kMaxIterations
        /\ (k_ret < kMaxIterations => Gt4(orbit[k_ret]))
        /\ \A k \in 0..(k_ret - 1) :
             /\ ~Gt4(orbit[k])
             /\ (~IsNaN(c_real) /\ ~IsNaN(c_imag) => Le4(orbit[k]))

\* an orbit that sits on the circle of radius 2 for ever, and is never cut off
C12_Witness ==
  /\ k_pc = "ret" /\ c_real = FNeg(Two) /\ c_imag = 0
  /\ z_real = Two /\ z_imag = 0 /\ k_ret = kMaxIterations

\* C13: when a polling batch ends, stateChanged is set if any event of the batch
\* changed zoom, offset_X or offset_Y, whatever events followed it in the batch
\* (a key without a case included); so no frame displays a surface computed for
\* another viewport than the current one.
C13_ChangeSetsFlag ==
  /\ (m_pc = "frame" /\ batchChanged) => stateChanged
  /\ ~stale

\* C14: after the first render the main loop calls UpdateImage only when the
\* viewport differs from the one of the previous call; a key press that changes
\* nothing (Escape, a key without a case) causes no call.
C14_UpdateOnlyOnChange == ~redundant

\* C15: the cases of the switch on event.type exclude each other: handling a
\* KeyPressed event never runs the code of case MouseWheelScrolled.
C15_CasesExclusive == "KeyPressed" \notin wheelRanFor

\* C16: zoom > 0 holds throughout the main loop, under every zoom step and pan,
\* and every UpdateImage call of the loop gets a zoom > 0.
C16_ZoomPositive ==
  /\ FGt(zoom, 0)
  /\ (shown # <<>> => FGt(shown[1], 0))

\* zooming in at the smallest zoom the loop can reach, where zoom * zoom_factor
\* rounds back to zoom, and UpdateImage called there
C16_Witness ==
  /\ handled > 0 /\ batchChanged = FALSE /\ redundant
  /\ IsFinite(zoom) /\ ZoomIn(zoom) = zoom /\ shown[1] = zoom
  /\ FGt(zoom_factor, 0) /\ FGt(One, zoom_factor)

\* C17: for every worker count W >= 1, W > IMAGE_HEIGHT included, UpdateImage starts
\* finitely many workers and returns: each pass of the spawn loop moves i forward,
\* no more workers are started than there are rows, and the call does not end in
\* a failed thread start.
C17_EveryCountTerminates ==
  hc >= 1 =>
    /\ pc # "crashed"
    /\ (pc = "spawn" /\ i < IMAGE_HEIGHT => NextSlice(i, STEP) > i)
    /\ (InUpdate => Len(threads) <= IMAGE_HEIGHT)
=============================================================================
